---- MODULE Spec2Model ----
(***************************************************************************)
(* A model of led_control.py: the colour codec, the Monitor base class,   *)
(* its three variants (site_health, load_average, pulse) and the polling  *)
(* loop of main().                                                         *)
(*                                                                         *)
(* Times are integers counting tenths of a second (the loop sleeps 0.1 s). *)
(* Python numbers that may be fractional are rationals [num, den].         *)
(* A Python exception is a result record with raised = TRUE.               *)
(***************************************************************************)
EXTENDS Integers, Sequences, FiniteSets, TLC

VARIABLES
    config,        \* config["monitors"]: ordered (name, keyword arguments) pairs
    monitors,      \* main's list of constructed monitors
    pc,            \* "construct" (for loop, line 159), "loop" (while True), "crashed"
    exc,           \* the exception that ended the process, "" while it runs
    i,             \* position of the for loop in progress (config entry / monitor)
    now,           \* time.time()
    device,        \* the sysfs files: leds, brightness, and the writes made to them
    updates,       \* per monitor, the number of update() calls made on it
    calls,         \* the monitors update() was called on in this iteration, in order
    last_calls,    \* the same for the last completed iteration
    tick,          \* completed iterations of the while loop
    gets,          \* number of requests.get calls issued
    http_log,      \* the last two requests.get calls
    health_calls,  \* the last two site_health.update() calls
    wrote,         \* the monitors whose update() wrote a zone in this iteration
    args,          \* the arguments of a function applied on its own
    result         \* <<its result>>, <<>> before it is applied

vars == <<config, monitors, pc, exc, i, now, device, updates, calls, last_calls,
          tick, gets, http_log, health_calls, wrote, args, result>>

-----------------------------------------------------------------------------
(* Bounds of the model *)

Horizon == 23          \* the run is followed for this many tenths of a second
Overshoot == 45        \* channel values run from -Overshoot to 255 + Overshoot
MaxLoad == 900         \* load averages run from 0.00 to MaxLoad / 100
MaxSpeed == 120        \* pulse speeds run from 0 to MaxSpeed

-----------------------------------------------------------------------------
(* Program constants *)

StartTime == 20        \* time.time() when the process starts (any value larger
                       \* than every configured frequency: the clock counts from
                       \* the epoch, last_update starts at 0)
MaxTime == StartTime + Horizon
SleepTime == 1         \* time.sleep(0.1)
OneSecond == 10        \* "time.time() - start < 1"
DefaultTimeout == 50   \* timeout=5
DefaultFrequency == 100 \* frequency=10
DefaultSpeed == 5      \* speed=5
DefaultBrightness == 100
cpu_cores == 8

ValidLocations == {"left", "right", "center", "extra"}

None == "None"

-----------------------------------------------------------------------------
(* Numbers *)

Num(n) == [num |-> n, den |-> 1]

\* Python's int(x): truncation toward zero
int(x) ==
    IF x.num >= 0 THEN x.num \div x.den ELSE -((-x.num) \div x.den)

Min(a, b) == IF a <= b THEN a ELSE b
Max(a, b) == IF a >= b THEN a ELSE b

-----------------------------------------------------------------------------
(* Colour codec *)

HexDigits ==
    <<"0", "1", "2", "3", "4", "5", "6", "7", "8", "9", "a", "b", "c", "d", "e", "f">>

\* hex(n)[2:] for n >= 0
RECURSIVE hex(_)
hex(n) ==
    IF n < 16 THEN HexDigits[n + 1] ELSE hex(n \div 16) \o HexDigits[(n % 16) + 1]

\* as pad2, without the padding
pad2_none(s) == s

\* "{:0>2}".format(s)
pad2(s) == IF Len(s) < 2 THEN "0" \o s ELSE s

int_to_hex(_int) ==
    IF _int > 255 THEN "ff"
    ELSE IF _int < 0 THEN "00"
    ELSE pad2(hex(_int))

rgb_to_str(_list) ==
    int_to_hex(int(_list[1])) \o int_to_hex(int(_list[2])) \o int_to_hex(int(_list[3]))

\* a list of ints as a list of numbers
Ints(l) == [x \in 1..Len(l) |-> Num(l[x])]

-----------------------------------------------------------------------------
(* The device: /sys/class/leds/system76::kbd_backlight/ *)

\* leds[z]: content of color_<z> ("" before the process writes it)
\* brightness: content of brightness (-1 before the process writes it)
\* writes[k][z]: writes of the k-th configured monitor to color_<z>
\* bwrites: writes to brightness
InitDevice(n) ==
    [leds |-> [z \in ValidLocations |-> ""],
     brightness |-> -1,
     writes |-> [k \in 1..n |-> [z \in ValidLocations |-> 0]],
     bwrites |-> 0]

\* as _update_brighness, without the clamp
_update_brighness_raw(dev, brightness) ==
    [dev EXCEPT !.brightness = brightness,
                !.bwrites = @ + 1]

_update_brighness(dev, brightness) ==
    [dev EXCEPT !.brightness = Max(100, Min(0, brightness)),
                !.bwrites = @ + 1]

\* as _update_leds, but every zone of the keyboard is written
_update_leds_all(k, self, dev) ==
    [dev EXCEPT
        !.leds = [z \in ValidLocations |-> self.current_colour],
        !.writes[k] = [z \in ValidLocations |-> @[z] + 1]]

\* as _update_leds, but a zone that already shows the colour is not written again
_update_leds_dedup(k, self, dev) ==
    [dev EXCEPT
        !.leds = [z \in ValidLocations |->
                    IF z \in self.locations THEN self.current_colour ELSE @[z]],
        !.writes[k] = [z \in ValidLocations |->
                    IF z \in self.locations /\ dev.leds[z] # self.current_colour
                    THEN @[z] + 1 ELSE @[z]]]

_update_leds(k, self, dev) ==
    [dev EXCEPT
        !.leds = [z \in ValidLocations |->
                    IF z \in self.locations THEN self.current_colour ELSE @[z]],
        !.writes[k] = [z \in ValidLocations |->
                    IF z \in self.locations THEN @[z] + 1 ELSE @[z]]]

-----------------------------------------------------------------------------
(* Keyword arguments *)

Str(s) == [type |-> "str", value |-> s]
List(l) == [type |-> "list", value |-> l]

\* the value bound to a parameter that has a default
Arg(kwargs, name, default) ==
    IF name \in DOMAIN kwargs THEN kwargs[name] ELSE default

\* cls(**kwargs) raises TypeError when a required parameter is missing or a
\* keyword is not a parameter
BindsTo(kwargs, required, optional) ==
    /\ required \subseteq DOMAIN kwargs
    /\ DOMAIN kwargs \subseteq required \cup optional

Raise(e, dev) == [raised |-> TRUE, exc |-> e, dev |-> dev]

-----------------------------------------------------------------------------
(* class Monitor *)

\* "if type(locations) == str: locations = [locations]"
AsList(locations) ==
    IF locations.type = "str" THEN <<locations.value>> ELSE locations.value

\* as Monitor__init__, but a location that is not valid is dropped silently
Monitor__init__dropping(k, locations, default, dev) ==
    LET locs == AsList(locations)
        self == [locations |-> {locs[x] : x \in 1..Len(locs)} \cap ValidLocations,
                 current_colour |-> IF default = None
                                    THEN rgb_to_str(Ints(<<0, 0, 255>>))
                                    ELSE default]
    IN  [raised |-> FALSE,
         self |-> self,
         dev |-> _update_brighness(_update_leds(k, self, dev), DefaultBrightness)]

\* the result of the validation loop: the set built, or the first bad location
Monitor__init__(k, locations, default, dev) ==
    LET locs == AsList(locations)
        self == [locations |-> {locs[x] : x \in 1..Len(locs)},
                 current_colour |-> IF default = None
                                    THEN rgb_to_str(Ints(<<0, 0, 255>>))
                                    ELSE default]
    IN  IF \E x \in 1..Len(locs) : locs[x] \notin ValidLocations
        THEN Raise("AttributeError", dev)
        ELSE [raised |-> FALSE,
              self |-> self,
              dev |-> _update_brighness(_update_leds(k, self, dev), DefaultBrightness)]

-----------------------------------------------------------------------------
(* class site_health *)

status_colours ==
    [unknown |-> rgb_to_str(Ints(<<0, 0, 255>>)),
     good |-> rgb_to_str(Ints(<<0, 255, 0>>)),
     degraded |-> rgb_to_str(Ints(<<192, 192, 0>>)),
     bad |-> rgb_to_str(Ints(<<255, 0, 0>>))]

site_health__init__(k, kwargs, dev) ==
    LET base == Monitor__init__(k, kwargs.locations, status_colours["unknown"], dev)
    IN  IF base.raised THEN base
        ELSE [raised |-> FALSE,
              self |-> [kind |-> "site_health",
                        locations |-> base.self.locations,
                        current_colour |-> base.self.current_colour,
                        url |-> kwargs.url,
                        timeout |-> Arg(kwargs, "timeout", DefaultTimeout),
                        frequency |-> Arg(kwargs, "frequency", DefaultFrequency),
                        headers |-> Arg(kwargs, "headers", <<>>),
                        last_update |-> 0],
              dev |-> base.dev]

\* what requests.get can do: raise (at once, or when the timeout expires), or
\* return a response with a status code after some time
StatusCodes == {200, 503}

Elapsed == {0, OneSecond - 1, OneSecond}

HttpOutcomes(timeout) ==
    {[raised |-> FALSE, status_code |-> s, elapsed |-> e] :
        s \in StatusCodes, e \in Elapsed}
    \cup {[raised |-> TRUE, status_code |-> 0, elapsed |-> e] : e \in {0, timeout}}

\* as RateLimited, but counting iterations of the loop (one per sleep) in place
\* of the time since last_update
RateLimited_by_ticks(self, t) == (tick * SleepTime) % self.frequency # 0

\* as RateLimited, with the check left out
RateLimited_never(self, t) == FALSE

\* "if time.time() - self.last_update < self.frequency: return"
RateLimited(self, t) == t - self.last_update < self.frequency

\* as Propagates, without the try block
Propagates_uncaught(resp) == resp.raised

\* "except Exception:" catches whatever requests.get raises: nothing leaves update()
Propagates(resp) == FALSE

\* as StatusColour, with "<= 1" for "< 1"
StatusColour_le(resp, elapsed) ==
    IF resp.raised THEN status_colours["unknown"]
    ELSE IF resp.status_code = 200 /\ elapsed <= OneSecond THEN status_colours["good"]
    ELSE IF resp.status_code = 200 THEN status_colours["degraded"]
    ELSE status_colours["bad"]

\* the colour chosen from the outcome; elapsed is "time.time() - start"
StatusColour(resp, elapsed) ==
    IF resp.raised THEN status_colours["unknown"]
    ELSE IF resp.status_code = 200 /\ elapsed < OneSecond THEN status_colours["good"]
    ELSE IF resp.status_code = 200 THEN status_colours["degraded"]
    ELSE status_colours["bad"]

\* as Poll, but the except branch returns: no write, no time stamp
Poll_except_returns(k, self, dev, t, resp) ==
    LET start == t
        end == t + resp.elapsed
        coloured == [self EXCEPT !.current_colour = StatusColour(resp, end - start)]
    IN  IF resp.raised
        THEN [raised |-> FALSE, self |-> coloured, dev |-> dev, now |-> end,
              polled |-> TRUE]
        ELSE [raised |-> FALSE,
              self |-> [coloured EXCEPT !.last_update = end],
              dev |-> _update_leds(k, coloured, dev),
              now |-> end,
              polled |-> TRUE]

\* update() past the rate limit, at time t: the request, the colour, the write
\* and the time stamp.  now: the time when update() returns.
Poll(k, self, dev, t, resp) ==
    LET start == t
        end == t + resp.elapsed
        coloured == [self EXCEPT !.current_colour = StatusColour(resp, end - start)]
    IN  IF Propagates(resp)
        THEN [raised |-> TRUE, exc |-> "RequestException", self |-> self, dev |-> dev,
              now |-> end, polled |-> TRUE]
        ELSE [raised |-> FALSE,
              self |-> [coloured EXCEPT !.last_update = end],
              dev |-> _update_leds(k, coloured, dev),
              now |-> end,
              polled |-> TRUE]

\* as site_health_update, but a rate-limited call writes the colour again
site_health_update_rewriting(k, self, dev, t, resp) ==
    IF RateLimited(self, t)
    THEN [raised |-> FALSE, self |-> self, dev |-> _update_leds(k, self, dev),
          now |-> t, polled |-> FALSE]
    ELSE Poll(k, self, dev, t, resp)

\* update() called at time t, requests.get behaving as resp.  polled: whether
\* requests.get was called.
site_health_update(k, self, dev, t, resp) ==
    IF RateLimited(self, t)
    THEN [raised |-> FALSE, self |-> self, dev |-> dev, now |-> t, polled |-> FALSE]
    ELSE Poll(k, self, dev, t, resp)

-----------------------------------------------------------------------------
(* class load_average *)

load_average__init__(k, kwargs, dev) ==
    LET base == Monitor__init__(k, kwargs.locations, Arg(kwargs, "default", None), dev)
    IN  IF base.raised THEN base
        ELSE [raised |-> FALSE,
              self |-> [kind |-> "load_average",
                        locations |-> base.self.locations,
                        current_colour |-> base.self.current_colour],
              dev |-> base.dev]

\* os.getloadavg()[0]: the kernel reports it with two decimals
Loads == {[num |-> l, den |-> 100] : l \in {0, 173, 800, 1250}}

\* as Scaled, without the division by the number of cores
Scaled_no_cores(load) ==
    [num |-> Min(255 * load.num, 255 * load.den), den |-> load.den]

\* min(255 * load / cpu_cores, 255)
Scaled(load) ==
    [num |-> Min(255 * load.num, 255 * load.den * cpu_cores),
     den |-> load.den * cpu_cores]

load_average_update(k, self, dev, load) ==
    LET load_avg == Scaled(load)
        rest == [num |-> 255 * load_avg.den - load_avg.num, den |-> load_avg.den]
        coloured == [self EXCEPT
                        !.current_colour = rgb_to_str(<<load_avg, rest, Num(0)>>)]
    IN  [raised |-> FALSE, self |-> coloured, dev |-> _update_leds(k, coloured, dev)]

-----------------------------------------------------------------------------
(* class pulse *)

pulse__init__(k, kwargs, dev) ==
    LET base == Monitor__init__(k, kwargs.locations, Arg(kwargs, "default", None), dev)
    IN  IF base.raised THEN base
        ELSE [raised |-> FALSE,
              self |-> [kind |-> "pulse",
                        locations |-> base.self.locations,
                        current_colour |-> base.self.current_colour,
                        a_colour |-> Arg(kwargs, "a_colour", <<0, 0, 255>>),
                        b_colour |-> Arg(kwargs, "b_colour", <<255, 0, 0>>),
                        position |-> 0,
                        speed |-> Arg(kwargs, "speed", DefaultSpeed)],
              dev |-> base.dev]

\* a[x]*(100-p)/100 + b[x]*p/100
Blend(a, b, p) ==
    [x \in 1..3 |-> [num |-> a[x] * (100 - p) + b[x] * p, den |-> 100]]

\* as Advance, but the position is compared before the speed is added
Advance_check_first(position, speed) ==
    IF position > 100 THEN 0 ELSE position + speed

\* as Advance, but the position stays where it is in place of the reset
Advance_stuck(position, speed) ==
    IF position + speed > 100 THEN position ELSE position + speed

\* as Advance, with ">= 100" for "> 100"
Advance_ge(position, speed) ==
    IF position + speed >= 100 THEN 0 ELSE position + speed

\* "self.position += self.speed; if self.position > 100: self.position = 0"
Advance(position, speed) ==
    IF position + speed > 100 THEN 0 ELSE position + speed

\* as pulse_update, but the position advances before the colour is computed
pulse_update_advance_first(k, self, dev) ==
    LET p == Advance(self.position, self.speed)
        colour == Blend(self.a_colour, self.b_colour, p)
        coloured == [self EXCEPT !.current_colour = rgb_to_str(colour)]
    IN  [raised |-> FALSE,
         self |-> [coloured EXCEPT !.position = p],
         dev |-> _update_leds(k, coloured, dev)]

pulse_update(k, self, dev) ==
    LET p == self.position
        colour == Blend(self.a_colour, self.b_colour, p)
        coloured == [self EXCEPT !.current_colour = rgb_to_str(colour)]
    IN  [raised |-> FALSE,
         self |-> [coloured EXCEPT !.position = Advance(p, self.speed)],
         dev |-> _update_leds(k, coloured, dev)]

-----------------------------------------------------------------------------
(* Configurations: the "monitors" mapping of /etc/led_control.yaml, a mapping *)
(* from monitor name to keyword arguments, in file order.  A mapping holds    *)
(* each name once.                                                            *)

Entry(name, kwargs) == [name |-> name, kwargs |-> kwargs]

HealthFast ==
    Entry("site_health",
          [locations |-> List(<<"left">>), url |-> "http://a/", frequency |-> 3,
           timeout |-> 10])
HealthSlow ==
    Entry("site_health",
          [locations |-> Str("center"), url |-> "http://b/", frequency |-> 12,
           headers |-> <<"token">>])
HealthNoUrl == Entry("site_health", [locations |-> Str("left")])

LoadRight == Entry("load_average", [locations |-> List(<<"right">>)])
LoadNoZone == Entry("load_average", [locations |-> List(<<>>), default |-> "00ff00"])
LoadTop == Entry("load_average", [locations |-> List(<<"left", "top", "right">>)])

PulseCenter == Entry("pulse", [locations |-> Str("center")])
PulseHalf ==
    Entry("pulse", [locations |-> List(<<"left", "extra">>), speed |-> 50])
PulseCustom ==
    Entry("pulse",
          [locations |-> List(<<"extra">>), default |-> "123456", speed |-> 30,
           a_colour |-> <<10, 300, 0>>, b_colour |-> <<255, 7, 128>>])
PulseTop == Entry("pulse", [locations |-> Str("top")])

Unknown == Entry("cpu_temp", [locations |-> Str("left")])

Configs ==
    {<<PulseCenter>>,
     <<PulseHalf, LoadRight>>,
     <<LoadRight, PulseCenter>>,
     <<PulseCustom, LoadNoZone>>,
     <<HealthFast, LoadRight>>,
     <<PulseCustom, HealthSlow>>,
     <<LoadRight, HealthFast, PulseHalf>>,
     <<PulseCenter, LoadTop>>,
     <<PulseTop, HealthFast>>,
     <<LoadRight, HealthNoUrl, PulseCenter>>,
     <<PulseHalf, Unknown, LoadRight>>}

-----------------------------------------------------------------------------
(* main *)

available_monitors == {"site_health", "load_average", "pulse"}

\* the parameters of each __init__ without and with a default
Required(name) ==
    IF name = "site_health" THEN {"locations", "url"} ELSE {"locations"}

Optional(name) ==
    IF name = "site_health" THEN {"headers", "timeout", "frequency"}
    ELSE IF name = "load_average" THEN {"default"}
    ELSE {"default", "a_colour", "b_colour", "speed"}

\* "monitor = available_monitors[name](**config)"
Instantiate(k, entry, dev) ==
    IF entry.name \notin available_monitors THEN Raise("KeyError", dev)
    ELSE IF ~BindsTo(entry.kwargs, Required(entry.name), Optional(entry.name))
         THEN Raise("TypeError", dev)
    ELSE IF entry.name = "site_health" THEN site_health__init__(k, entry.kwargs, dev)
    ELSE IF entry.name = "load_average" THEN load_average__init__(k, entry.kwargs, dev)
    ELSE pulse__init__(k, entry.kwargs, dev)

Init ==
    /\ config \in Configs
    /\ monitors = <<>>
    /\ pc = "construct"
    /\ exc = ""
    /\ i = 1
    /\ now = StartTime
    /\ device = InitDevice(Len(config))
    /\ updates = [k \in 1..Len(config) |-> 0]
    /\ calls = <<>>
    /\ last_calls = <<>>
    /\ tick = 0
    /\ gets = 0
    /\ http_log = <<>>
    /\ health_calls = <<>>
    /\ wrote = {}
    /\ args = [fn |-> "main"]
    /\ result = <<>>

\* the last two entries of a log with one entry added
Window(log, entry) ==
    IF Len(log) < 2 THEN Append(log, entry) ELSE <<log[2], entry>>

\* as Construct, but an entry whose construction raises is skipped
Construct_skipping ==
    /\ pc = "construct"
    /\ i <= Len(config)
    /\ LET r == Instantiate(i, config[i], device)
       IN  /\ device' = r.dev
           /\ i' = i + 1
           /\ monitors' = IF r.raised THEN monitors ELSE Append(monitors, r.self)
    /\ UNCHANGED <<config, pc, exc, now, updates, calls, last_calls, tick, gets,
                   http_log, health_calls, wrote, args, result>>

\* one turn of "for name, config in config["monitors"].items()"
Construct ==
    /\ pc = "construct"
    /\ i <= Len(config)
    /\ LET r == Instantiate(i, config[i], device)
       IN  /\ device' = r.dev
           /\ IF r.raised
              THEN /\ pc' = "crashed"
                   /\ exc' = r.exc
                   /\ UNCHANGED <<monitors, i>>
              ELSE /\ monitors' = Append(monitors, r.self)
                   /\ i' = i + 1
                   /\ UNCHANGED <<pc, exc>>
    /\ UNCHANGED <<config, now, updates, calls, last_calls, tick, gets, http_log,
                   health_calls, wrote, args, result>>

\* the for loop is over: "while True"
EnterLoop ==
    /\ pc = "construct"
    /\ i = Len(config) + 1
    /\ pc' = "loop"
    /\ i' = 1
    /\ UNCHANGED <<config, monitors, exc, now, device, updates, calls, last_calls,
                   tick, gets, http_log, health_calls, wrote, args, result>>

\* as Returned, but last_update is set on the class: every site_health sees the
\* time stamp of the one that polled
Returned_class_attribute(r) ==
    /\ device' = r.dev
    /\ updates' = [updates EXCEPT ![i] = @ + 1]
    /\ calls' = Append(calls, i)
    /\ wrote' = IF r.dev.writes[i] # device.writes[i] THEN wrote \cup {i} ELSE wrote
    /\ monitors' = [k \in 1..Len(monitors) |->
                      IF k = i THEN r.self
                      ELSE IF monitors[k].kind = "site_health"
                              /\ r.self.kind = "site_health"
                           THEN [monitors[k] EXCEPT !.last_update = r.self.last_update]
                      ELSE monitors[k]]
    /\ i' = i + 1
    /\ UNCHANGED <<pc, exc>>

\* what the loop does with the result of monitor.update()
Returned(r) ==
    /\ device' = r.dev
    /\ updates' = [updates EXCEPT ![i] = @ + 1]
    /\ calls' = Append(calls, i)
    /\ wrote' = IF r.dev.writes[i] # device.writes[i] THEN wrote \cup {i} ELSE wrote
    /\ IF r.raised
       THEN /\ pc' = "crashed"
            /\ exc' = r.exc
            /\ UNCHANGED <<monitors, i>>
       ELSE /\ monitors' = [monitors EXCEPT ![i] = r.self]
            /\ i' = i + 1
            /\ UNCHANGED <<pc, exc>>

\* monitor.update() on a site_health
UpdateSiteHealth ==
    /\ pc = "loop"
    /\ i <= Len(monitors)
    /\ monitors[i].kind = "site_health"
    /\ \E resp \in HttpOutcomes(monitors[i].timeout) :
          LET r == site_health_update(i, monitors[i], device, now, resp)
          IN  /\ r.now <= MaxTime
              /\ Returned(r)
              /\ now' = r.now
              /\ health_calls' = Window(health_calls, [start |-> now, polled |-> r.polled])
              /\ IF r.polled
                 THEN /\ gets' = gets + 1
                      /\ http_log' = Window(http_log,
                                        [start |-> now, end |-> r.now, resp |-> resp,
                                         before |-> monitors[i].current_colour])
                 ELSE UNCHANGED <<gets, http_log>>
    /\ UNCHANGED <<config, last_calls, tick, args, result>>

\* monitor.update() on a load_average
UpdateLoadAverage ==
    /\ pc = "loop"
    /\ i <= Len(monitors)
    /\ monitors[i].kind = "load_average"
    /\ \E load \in Loads :
          Returned(load_average_update(i, monitors[i], device, load))
    /\ UNCHANGED <<config, now, last_calls, tick, gets, http_log, health_calls,
                   args, result>>

\* monitor.update() on a pulse
UpdatePulse ==
    /\ pc = "loop"
    /\ i <= Len(monitors)
    /\ monitors[i].kind = "pulse"
    /\ Returned(pulse_update(i, monitors[i], device))
    /\ UNCHANGED <<config, now, last_calls, tick, gets, http_log, health_calls,
                   args, result>>

\* as Sleep, but the iteration may end before the last monitor (a break)
Sleep_early ==
    /\ pc = "loop"
    /\ i <= Len(monitors) + 1
    /\ now + SleepTime <= MaxTime
    /\ now' = now + SleepTime
    /\ i' = 1
    /\ tick' = tick + 1
    /\ last_calls' = calls
    /\ calls' = <<>>
    /\ wrote' = {}
    /\ UNCHANGED <<config, monitors, pc, exc, device, updates, gets, http_log,
                   health_calls, args, result>>

\* "time.sleep(0.1)", and the next iteration begins
Sleep ==
    /\ pc = "loop"
    /\ i = Len(monitors) + 1
    /\ now + SleepTime <= MaxTime
    /\ now' = now + SleepTime
    /\ i' = 1
    /\ tick' = tick + 1
    /\ last_calls' = calls
    /\ calls' = <<>>
    /\ wrote' = {}
    /\ UNCHANGED <<config, monitors, pc, exc, device, updates, gets, http_log,
                   health_calls, args, result>>

Next ==
    \/ Construct
    \/ EnterLoop
    \/ UpdateSiteHealth
    \/ UpdateLoadAverage
    \/ UpdatePulse
    \/ Sleep

Spec == Init /\ [][Next]_vars

-----------------------------------------------------------------------------
(* The loop over monitor lists that a caller of the classes can build but     *)
(* main cannot: main reads a mapping, which holds one site_health at most.    *)

InstanceLists ==
    {<<HealthFast, HealthSlow>>,
     <<HealthSlow, PulseHalf, HealthFast>>}

InitInstances ==
    /\ config \in Configs \cup InstanceLists
    /\ monitors = <<>>
    /\ pc = "construct"
    /\ exc = ""
    /\ i = 1
    /\ now = StartTime
    /\ device = InitDevice(Len(config))
    /\ updates = [k \in 1..Len(config) |-> 0]
    /\ calls = <<>>
    /\ last_calls = <<>>
    /\ tick = 0
    /\ gets = 0
    /\ http_log = <<>>
    /\ health_calls = <<>>
    /\ wrote = {}
    /\ args = [fn |-> "main"]
    /\ result = <<>>

SpecInstances == InitInstances /\ [][Next]_vars

-----------------------------------------------------------------------------
(* The functions and methods applied on their own: the arguments are drawn    *)
(* at the start, and one step applies the function to them.                   *)

ChannelValues == (0 - Overshoot)..(255 + Overshoot)

Channels == {-5, 0, 9, 16, 128, 255, 256, 300}

UnitInputs ==
    {[fn |-> "int_to_hex", v |-> v] : v \in ChannelValues}
    \cup {[fn |-> "rgb_to_str", list |-> <<r, g, b>>] :
              r \in Channels, g \in Channels, b \in Channels}
    \cup {[fn |-> "load_average_update", load |-> [num |-> l, den |-> 100]] :
              l \in 0..MaxLoad}
    \cup {[fn |-> "_update_brighness", brightness |-> b] :
              b \in (0 - Overshoot)..(100 + Overshoot)}
    \cup {[fn |-> "Monitor__init__", locations |-> l, default |-> d] :
              l \in {Str("center"), Str("top"), List(<<"left", "right">>), List(<<>>)},
              d \in {None, "123456"}}

InitUnit ==
    /\ args \in UnitInputs
    /\ result = <<>>
    /\ config = <<>>
    /\ monitors = <<>>
    /\ pc = "unit"
    /\ exc = ""
    /\ i = 1
    /\ now = StartTime
    /\ device = InitDevice(1)
    /\ updates = <<0>>
    /\ calls = <<>>
    /\ last_calls = <<>>
    /\ tick = 0
    /\ gets = 0
    /\ http_log = <<>>
    /\ health_calls = <<>>
    /\ wrote = {}

\* what a step that applies a function leaves alone
Applied ==
    UNCHANGED <<config, monitors, pc, exc, i, now, device, updates, calls, last_calls,
                tick, gets, http_log, health_calls, wrote, args>>

Apply_int_to_hex ==
    /\ pc = "unit"
    /\ args.fn = "int_to_hex"
    /\ result = <<>>
    /\ result' = <<int_to_hex(args.v)>>
    /\ Applied

Apply_rgb_to_str ==
    /\ pc = "unit"
    /\ args.fn = "rgb_to_str"
    /\ result = <<>>
    /\ result' = <<rgb_to_str(Ints(args.list))>>
    /\ Applied

\* update() on a load_average just constructed, os.getloadavg()[0] being args.load
Apply_load_average_update ==
    /\ pc = "unit"
    /\ args.fn = "load_average_update"
    /\ result = <<>>
    /\ LET new == load_average__init__(1, LoadRight.kwargs, device)
           r == load_average_update(1, new.self, new.dev, args.load)
       IN  result' = <<r.self.current_colour>>
    /\ Applied

Apply__update_brighness ==
    /\ pc = "unit"
    /\ args.fn = "_update_brighness"
    /\ result = <<>>
    /\ result' = <<_update_brighness(device, args.brightness)>>
    /\ Applied

Apply_Monitor__init__ ==
    /\ pc = "unit"
    /\ args.fn = "Monitor__init__"
    /\ result = <<>>
    /\ result' = <<Monitor__init__(1, args.locations, args.default, device)>>
    /\ Applied

NextUnit ==
    \/ Apply_int_to_hex
    \/ Apply_rgb_to_str
    \/ Apply_load_average_update
    \/ Apply__update_brighness
    \/ Apply_Monitor__init__

SpecUnit == InitUnit /\ [][NextUnit]_vars

-----------------------------------------------------------------------------
(* One pulse of any speed, update() called on it again and again as the loop  *)
(* of main does, which never ends.  The count of writes starts again at each  *)
(* call: writes[1][z] tells whether the last call wrote zone z.               *)

PulseOfSpeed(speed) == Entry("pulse", [locations |-> Str("center"), speed |-> speed])

InitPulse ==
    /\ \E speed \in 0..MaxSpeed :
          LET new == pulse__init__(1, PulseOfSpeed(speed).kwargs, InitDevice(1))
          IN  /\ args = [fn |-> "pulse_update", speed |-> speed]
              /\ config = <<PulseOfSpeed(speed)>>
              /\ monitors = <<new.self>>
              /\ device = new.dev
    /\ result = <<>>
    /\ pc = "unit"
    /\ exc = ""
    /\ i = 1
    /\ now = StartTime
    /\ updates = <<0>>
    /\ calls = <<>>
    /\ last_calls = <<>>
    /\ tick = 0
    /\ gets = 0
    /\ http_log = <<>>
    /\ health_calls = <<>>
    /\ wrote = {}

StepPulse ==
    /\ pc = "unit"
    /\ args.fn = "pulse_update"
    /\ LET r == pulse_update(1, monitors[1],
                             [device EXCEPT !.writes = InitDevice(1).writes])
       IN  /\ monitors' = <<r.self>>
           /\ device' = r.dev
    /\ UNCHANGED <<config, pc, exc, i, now, updates, calls, last_calls, tick, gets,
                   http_log, health_calls, wrote, args, result>>

SpecPulse == InitPulse /\ [][StepPulse]_vars /\ WF_vars(StepPulse)

-----------------------------------------------------------------------------
(* Properties *)

Health == {k \in 1..Len(monitors) : monitors[k].kind = "site_health"}
Pulses == {k \in 1..Len(monitors) : monitors[k].kind = "pulse"}

Last(log) == log[Len(log)]

\* the number of requests.get calls issued by the update() calls of a log
Polls(log) == Cardinality({x \in 1..Len(log) : log[x].polled})

\* two consecutive update() calls on the site_health k started less than
\* frequency apart
TwoCallsWithin(k) ==
    /\ Len(health_calls) = 2
    /\ health_calls[2].start - health_calls[1].start < monitors[k].frequency

\* C1, as stated: any two update() calls on a site_health monitor made within
\* frequency of each other issue exactly one HTTP GET.
C1_ExactlyOneGet ==
    \A k \in Health : TwoCallsWithin(k) => Polls(health_calls) = 1

\* C1, amended: two update() calls made within frequency of each other issue at
\* most one HTTP GET (exactly one when they are the monitor's first two calls);
\* two HTTP GETs start at least frequency apart, and the later one starts at
\* least frequency after the earlier one completed.
C1_RateLimit ==
    \A k \in Health :
        /\ TwoCallsWithin(k) => Polls(health_calls) <= 1
        /\ (TwoCallsWithin(k) /\ updates[k] = 2) => Polls(health_calls) = 1
        /\ Len(http_log) = 2 =>
              /\ http_log[2].start - http_log[1].end >= monitors[k].frequency
              /\ http_log[2].start - http_log[1].start >= monitors[k].frequency

\* a rate-limited call, then a polling call less than frequency later, which is
\* the second GET of the run
C1_Witness ==
    \E k \in Health :
        /\ TwoCallsWithin(k)
        /\ ~health_calls[1].polled
        /\ health_calls[2].polled
        /\ gets = 2

\* the colour the claim gives for an outcome
C2_Colour(resp, elapsed) ==
    IF resp.raised THEN "0000ff"
    ELSE IF resp.status_code = 200 /\ elapsed < OneSecond THEN "00ff00"
    ELSE IF resp.status_code = 200 THEN "c0c000"
    ELSE "ff0000"

\* C2: after a site_health.update() that polled, current_colour is the colour of
\* the outcome of that poll (good, degraded, bad, unknown), whatever the colour
\* was before.
C2_ColourFromOutcome ==
    \A k \in Health :
        gets > 0 =>
            monitors[k].current_colour
                = C2_Colour(Last(http_log).resp, Last(http_log).end - Last(http_log).start)

\* a poll that found the monitor red and got status 200 after one second
C2_Witness ==
    \E k \in Health :
        /\ gets > 0
        /\ Last(http_log).before = "ff0000"
        /\ Last(http_log).resp.status_code = 200
        /\ Last(http_log).end - Last(http_log).start = OneSecond
        /\ monitors[k].current_colour = "c0c000"

\* C3: a failure of the HTTP GET never ends the process (the only crashes are
\* those of the construction, before any update()), and in every iteration
\* update() is called on every monitor, which for a monitor that is no
\* site_health writes its zones once per call.
C3_FaultIsolation ==
    /\ pc = "crashed" =>
          /\ exc \in {"KeyError", "TypeError", "AttributeError"}
          /\ \A k \in 1..Len(config) : updates[k] = 0
    /\ pc = "loop" =>
          \A k \in 1..Len(monitors) :
              /\ updates[k] = tick + (IF k < i THEN 1 ELSE 0)
              /\ k \notin Health =>
                    \A z \in monitors[k].locations :
                        device.writes[k][z] = 1 + updates[k]

\* every HTTP GET so far raised, and a monitor placed after the site_health has
\* had update() called in each of the four iterations
C3_Witness ==
    \E k \in Health :
        /\ pc = "loop"
        /\ gets = 2
        /\ http_log[1].resp.raised
        /\ http_log[2].resp.raised
        /\ \E j \in 1..Len(monitors) :
              /\ j > k
              /\ updates[j] = 4
              /\ \E z \in monitors[j].locations : device.writes[j][z] = 5

\* C4: every poll, failed or not, records last_update as the time it ended and
\* writes every zone of the monitor once, and the GET after a failed one starts
\* at least frequency after the failed one ended.
C4_FailedPollRateLimited ==
    \A k \in Health :
        /\ gets > 0 => monitors[k].last_update = Last(http_log).end
        /\ \A z \in monitors[k].locations : device.writes[k][z] = 1 + gets
        /\ (Len(http_log) = 2 /\ http_log[1].resp.raised) =>
              http_log[2].start - http_log[1].end >= monitors[k].frequency

\* a GET that raised when its timeout expired, and the GET that followed it
C4_Witness ==
    \E k \in Health :
        /\ Len(http_log) = 2
        /\ http_log[1].resp.raised
        /\ http_log[1].end - http_log[1].start = monitors[k].timeout
        /\ monitors[k].last_update = http_log[2].end

\* the monitors 1..n in list order
InOrder(n) == [k \in 1..n |-> k]

\* C5: the monitors are those of the configuration, in its order; within an
\* iteration update() has been called once on each monitor before the one in
\* turn, in list order, and an iteration that ended (with the sleep) called
\* update() exactly once on every monitor, in list order.
C5_OnceEachInOrder ==
    pc = "loop" =>
        /\ Len(monitors) = Len(config)
        /\ \A k \in 1..Len(monitors) : monitors[k].kind = config[k].name
        /\ calls = InOrder(i - 1)
        /\ tick > 0 => last_calls = InOrder(Len(monitors))

\* three monitors, two iterations done, the third under way
C5_Witness ==
    /\ pc = "loop"
    /\ Len(monitors) = 3
    /\ tick = 2
    /\ last_calls = <<1, 2, 3>>
    /\ calls = <<1, 2>>

\* a scheduler with one pulse and one load_average
PulseAndLoad ==
    /\ pc = "loop"
    /\ Len(monitors) = 2
    /\ {monitors[1].kind, monitors[2].kind} = {"pulse", "load_average"}

\* C6: with one pulse and one load_average, after N iterations each monitor has
\* written each of its zones N times since its construction (which wrote it
\* once), has written no other zone, and no HTTP GET was issued.
C6_WritesPerTick ==
    PulseAndLoad =>
        /\ gets = 0
        /\ \A k \in 1..2 :
              /\ i = 1 => updates[k] = tick
              /\ \A z \in ValidLocations :
                    device.writes[k][z]
                        = IF z \in monitors[k].locations THEN 1 + updates[k] ELSE 0

\* five iterations done: five writes per zone after the one of the construction
C6_Witness ==
    /\ PulseAndLoad
    /\ i = 1
    /\ tick = 5
    /\ \A k \in 1..2 : \E z \in ValidLocations : device.writes[k][z] = 6

\* the pulse monitors of speed 5 (they start at position 0)
Speed5 == {k \in Pulses : monitors[k].speed = 5}

\* C7, as stated: after 21 update() calls the position is 5.
C7_PositionFiveAfter21 ==
    \A k \in Speed5 : updates[k] = 21 => monitors[k].position = 5

\* C7, amended: 20 update() calls reach the boundary 100, the 21st wraps to 0,
\* and the position is 5 after the 22nd.
C7_WrapsToZero ==
    \A k \in Speed5 :
        /\ updates[k] <= 20 => monitors[k].position = 5 * updates[k]
        /\ updates[k] = 21 => monitors[k].position = 0
        /\ updates[k] = 22 => monitors[k].position = 5

\* 22 update() calls made
C7_Witness ==
    \E k \in Speed5 : updates[k] = 22 /\ monitors[k].position = 5

\* the position a pulse of this speed holds after n update() calls
RECURSIVE PositionAfter(_, _)
PositionAfter(n, speed) ==
    IF n = 0 THEN 0
    ELSE LET p == PositionAfter(n - 1, speed)
         IN  IF p + speed > 100 THEN 0 ELSE p + speed

\* two hex digits of a channel, clamped
HexByte(v) ==
    IF v > 255 THEN "ff"
    ELSE IF v < 0 THEN "00"
    ELSE HexDigits[(v \div 16) + 1] \o HexDigits[(v % 16) + 1]

\* the truncation of a*(100-p)/100 + b*p/100 (no channel is negative here)
Channel(a, b, p) == (a * (100 - p) + b * p) \div 100

BlendHex(a, b, p) ==
    HexByte(Channel(a[1], b[1], p)) \o HexByte(Channel(a[2], b[2], p))
        \o HexByte(Channel(a[3], b[3], p))

\* the position the pulse k held before its last update()
PositionBefore(k) == PositionAfter(updates[k] - 1, monitors[k].speed)

DefaultColours(k) ==
    /\ monitors[k].a_colour = <<0, 0, 255>>
    /\ monitors[k].b_colour = <<255, 0, 0>>

\* C8: the colour a pulse.update() sets and writes to its zones is the hex of
\* the truncated blend at the position held before the advance; with the default
\* colours it is "0000ff" at position 0 and "ff0000" at position 100.
C8_BlendBeforeAdvance ==
    \A k \in Pulses :
        updates[k] > 0 =>
            /\ monitors[k].current_colour
                  = BlendHex(monitors[k].a_colour, monitors[k].b_colour, PositionBefore(k))
            /\ i = k + 1 =>
                  \A z \in monitors[k].locations :
                      device.leds[z] = monitors[k].current_colour
            /\ (DefaultColours(k) /\ PositionBefore(k) = 0) =>
                  monitors[k].current_colour = "0000ff"
            /\ (DefaultColours(k) /\ PositionBefore(k) = 100) =>
                  monitors[k].current_colour = "ff0000"

\* the update() at position 100 of a pulse of speed 5 with the default colours
C8_Witness ==
    \E k \in Speed5 :
        /\ DefaultColours(k)
        /\ updates[k] = 21
        /\ PositionBefore(k) = 100
        /\ monitors[k].position = 0
        /\ \A z \in monitors[k].locations : device.leds[z] = "ff0000"

\* the locations of a configuration entry, and the colour its monitor starts with
LocationsOf(entry) ==
    IF entry.kwargs.locations.type = "str"
    THEN {entry.kwargs.locations.value}
    ELSE {entry.kwargs.locations.value[x] :
              x \in 1..Len(entry.kwargs.locations.value)}

InitialColour(entry) ==
    IF entry.name = "site_health" \/ "default" \notin DOMAIN entry.kwargs
    THEN "0000ff"
    ELSE entry.kwargs.default

\* an entry the constructor of its class is called with
Called(entry) ==
    /\ entry.name \in available_monitors
    /\ BindsTo(entry.kwargs, Required(entry.name), Optional(entry.name))

\* C9: the construction of a monitor from locations that hold an identifier
\* outside {left, right, center, extra} ends the process with a construction
\* error and writes nothing; from valid locations only it yields the monitor and
\* writes its initial colour once to each of its zones, and to no other zone.
C9_Construction ==
    [][(pc = "construct" /\ i <= Len(config) /\ Called(config[i])) =>
          IF LocationsOf(config[i]) \subseteq ValidLocations
          THEN /\ pc' = "construct"
               /\ Len(monitors') = Len(monitors) + 1
               /\ Last(monitors').locations = LocationsOf(config[i])
               /\ Last(monitors').current_colour = InitialColour(config[i])
               /\ \A z \in ValidLocations :
                     IF z \in LocationsOf(config[i])
                     THEN /\ device'.leds[z] = InitialColour(config[i])
                          /\ device'.writes[i][z] = 1
                     ELSE /\ device'.leds[z] = device.leds[z]
                          /\ device'.writes[i][z] = 0
          ELSE /\ pc' = "crashed"
               /\ exc' = "AttributeError"
               /\ monitors' = monitors
               /\ device' = device]_vars

\* after a monitor was constructed from the single string "center", a
\* construction from locations with valid identifiers and "top" has failed
C9_Witness ==
    /\ pc = "crashed"
    /\ exc = "AttributeError"
    /\ Len(monitors) = 1
    /\ config[1].kwargs.locations = Str("center")
    /\ device.writes[1]["center"] = 1
    /\ {"left", "top"} \subseteq LocationsOf(config[i])
    /\ \A z \in ValidLocations : device.writes[i][z] = 0

\* C10, as stated: no constructed monitor has an empty zone set.
C10_ZonesNonEmpty ==
    \A k \in 1..Len(monitors) : monitors[k].locations # {}

\* a configuration entry with a configuration error, and the exception it raises
Faulty(entry) == ~Called(entry) \/ ~(LocationsOf(entry) \subseteq ValidLocations)

ErrorOf(entry) ==
    IF entry.name \notin available_monitors THEN "KeyError"
    ELSE IF ~Called(entry) THEN "TypeError"
    ELSE "AttributeError"

FaultyEntries == {k \in 1..Len(config) : Faulty(config[k])}

\* C14: with a configuration error in any entry the process never reaches the
\* polling loop and update() is called on no monitor; it ends at the first
\* faulty entry with the error of that entry, the monitors before it constructed.
C14_FatalAtStartup ==
    /\ FaultyEntries # {} =>
          /\ pc # "loop"
          /\ tick = 0
          /\ \A k \in 1..Len(config) : updates[k] = 0
          /\ \A k \in FaultyEntries : Len(monitors) < k
    /\ pc = "crashed" =>
          /\ i \in FaultyEntries
          /\ Len(monitors) = i - 1
          /\ exc = ErrorOf(config[i])

\* a site_health without url, after a load_average was constructed
C14_Witness ==
    /\ pc = "crashed"
    /\ exc = "TypeError"
    /\ Len(monitors) = 1
    /\ device.writes[1]["right"] = 1
    /\ updates[1] = 0

\* the loop is about to call update() on a site_health that is within
\* frequency of its last_update
AboutToSkip ==
    /\ pc = "loop"
    /\ i \in Health
    /\ now - monitors[i].last_update < monitors[i].frequency

\* C15: a rate-limited site_health.update() issues no HTTP GET, writes nothing
\* to the device, takes no time and changes no monitor (neither current_colour
\* nor last_update).
C15_RateLimitedNoOp ==
    [][AboutToSkip =>
          /\ monitors' = monitors
          /\ device' = device
          /\ gets' = gets
          /\ http_log' = http_log
          /\ now' = now
          /\ pc' = "loop"]_vars

\* a rate-limited update() has returned: the zones were written by the
\* constructor and by the one poll only
C15_Witness ==
    \E k \in Health :
        /\ pc = "loop"
        /\ i = k + 1
        /\ ~Last(health_calls).polled
        /\ gets = 1
        /\ \A z \in monitors[k].locations : device.writes[k][z] = 2

\* the loop is about to call update() on a site_health
AboutToUpdateHealth == pc = "loop" /\ i \in Health

\* C16: an update() on a site_health issues the HTTP GET exactly when
\* now - last_update >= frequency, whatever the number of iterations made and
\* however long other monitors took; its first update() always does.
C16_PollsByClock ==
    [][AboutToUpdateHealth =>
          /\ (gets' = gets + 1) <=> (now - monitors[i].last_update >= monitors[i].frequency)
          /\ (gets' = gets + 1) <=> (monitors'[i].last_update # monitors[i].last_update)
          /\ updates[i] = 0 => gets' = gets + 1]_vars

\* a site_health of frequency 0.3 s has polled in its second update(), one
\* iteration after its first poll, the GET of another monitor having taken a
\* second in between
C16_Witness ==
    \E k \in Health :
        /\ pc = "loop"
        /\ i = k + 1
        /\ monitors[k].frequency = 3
        /\ updates[k] = 2
        /\ tick = 1
        /\ monitors[k].last_update = now
        /\ \E j \in Health : j # k /\ monitors[j].last_update = now - SleepTime

\* C19: an update() call on one monitor leaves every other monitor as it was
\* (zones, colour, position, last_update); a poll by one site_health leaves the
\* last_update of another site_health alone.
C19_Independent ==
    [][(pc = "loop" /\ i <= Len(monitors)) =>
          /\ Len(monitors') = Len(monitors)
          /\ \A k \in 1..Len(monitors) : k # i => monitors'[k] = monitors[k]
          /\ \A k \in Health : k # i => monitors'[k].last_update = monitors[k].last_update]_vars

\* of two site_health monitors the later one has just polled a second time,
\* the earlier one has polled once and keeps its own last_update
C19_Witness ==
    \E j \in Health, k \in Health :
        /\ j < k
        /\ pc = "loop"
        /\ i = k + 1
        /\ gets = 3
        /\ monitors[k].last_update = now
        /\ monitors[j].last_update <= now - monitors[k].frequency
        /\ now - monitors[j].last_update < monitors[j].frequency

\* the step writes the colour of the monitor m, the k-th, to each of its zones,
\* once, and to no other zone
WritesZonesOf(k, m) ==
    \A z \in ValidLocations :
        IF z \in m.locations
        THEN /\ device'.leds[z] = m.current_colour
             /\ device'.writes[k][z] = device.writes[k][z] + 1
        ELSE /\ device'.leds[z] = device.leds[z]
             /\ device'.writes[k][z] = device.writes[k][z]

\* the monitors that claim the zone z
Claiming(z) == {k \in 1..Len(monitors) : z \in monitors[k].locations}

LastOf(S) == CHOOSE k \in S : \A j \in S : j <= k

\* C20: a construction and every update() that is not rate-limited write the
\* monitor's colour once to each zone of the monitor, the same colour as before
\* or not, and to no other zone, and no step writes for another monitor; a zone
\* no monitor claims is never written; at the end of an iteration a zone shows
\* the colour of the last monitor in list order that wrote it in the iteration.
C20_ZoneWrites ==
    /\ [][/\ (pc = "construct" /\ Len(monitors') = Len(monitors) + 1) =>
                WritesZonesOf(i, Last(monitors'))
          /\ (pc = "loop" /\ i <= Len(monitors)) =>
                IF i \in Health /\ gets' = gets
                THEN device' = device
                ELSE WritesZonesOf(i, monitors'[i])
          /\ \A k \in 1..Len(config) : k # i => device'.writes[k] = device.writes[k]]_vars
    /\ [](\A z \in ValidLocations :
            /\ Claiming(z) = {} =>
                  /\ device.leds[z] = ""
                  /\ \A k \in 1..Len(config) : device.writes[k][z] = 0
            /\ (pc = "loop" /\ i = Len(monitors) + 1 /\ Claiming(z) \cap wrote # {}) =>
                  device.leds[z]
                      = monitors[LastOf(Claiming(z) \cap wrote)].current_colour)

\* the end of an iteration in which, of two monitors that claim a zone, the
\* earlier wrote it and the later (a rate-limited site_health) did not: the
\* zone shows the colour of the earlier
C20_Witness ==
    \E z \in ValidLocations :
        \E j \in Claiming(z), k \in Claiming(z) :
            /\ j < k
            /\ pc = "loop"
            /\ i = Len(monitors) + 1
            /\ j \in wrote
            /\ k \notin wrote
            /\ device.leds[z] = monitors[j].current_colour
            /\ device.leds[z] # monitors[k].current_colour

-----------------------------------------------------------------------------
(* Properties of the functions applied on their own *)

Done(fn) == args.fn = fn /\ result # <<>>

\* the channel value two hex digits stand for
Decode(str) == CHOOSE n \in 0..255 : HexByte(n) = str

\* C11: int_to_hex(v) is "ff" for v > 255, "00" for v < 0, and otherwise two
\* lowercase hex digits that decode back to v; rgb_to_str is the concatenation
\* of the three channels in R, G, B order, each clamped on its own.
C11_Codec ==
    /\ Done("int_to_hex") =>
          /\ Len(result[1]) = 2
          /\ args.v > 255 => result[1] = "ff"
          /\ args.v < 0 => result[1] = "00"
          /\ args.v \in 0..255 =>
                /\ \E n \in 0..255 : HexByte(n) = result[1]
                /\ Decode(result[1]) = args.v
    /\ Done("rgb_to_str") =>
          /\ Len(result[1]) = 6
          /\ result[1] = HexByte(args.list[1]) \o HexByte(args.list[2])
                            \o HexByte(args.list[3])
          /\ args.list = <<0, 0, 255>> => result[1] = "0000ff"
          /\ args.list = <<255, 0, 0>> => result[1] = "ff0000"
          /\ args.list = <<300, -5, 128>> => result[1] = "ff0080"

\* rgb_to_str([300, -5, 128]) was computed
C11_Witness ==
    /\ Done("rgb_to_str")
    /\ args.list = <<300, -5, 128>>
    /\ result = <<"ff0080">>

\* 255 * load / cpu_cores capped at 255, as a numerator over 100 * cpu_cores,
\* for a load of l hundredths
FractionOver(l) ==
    IF 255 * l > 255 * 100 * cpu_cores THEN 255 * 100 * cpu_cores ELSE 255 * l

\* C12: the colour of a load_average after update() is rgb(f, 255 - f, 0) with
\* f = min(255 * load / cores, 255), each channel truncated: "00ff00" for load 0,
\* "ff0000" for every load >= cores, and the blue channel is "00".
C12_LoadColour ==
    Done("load_average_update") =>
        LET l == args.load.num
            f == FractionOver(l)
        IN  /\ result[1] = HexByte(f \div (100 * cpu_cores))
                              \o HexByte((255 * 100 * cpu_cores - f) \div (100 * cpu_cores))
                              \o "00"
            /\ l = 0 => result[1] = "00ff00"
            /\ l >= 100 * cpu_cores => result[1] = "ff0000"

\* update() at a load average of 8.37 on the 8 cores
C12_Witness ==
    /\ Done("load_average_update")
    /\ args.load.num = 837
    /\ result = <<"ff0000">>

\* C13: whatever brightness is requested, the value written to the brightness
\* file lies in 0..100, and a construction that succeeds writes 100, once.
C13_BrightnessInRange ==
    /\ Done("_update_brighness") =>
          /\ result[1].bwrites = 1
          /\ result[1].brightness \in 0..100
    /\ (Done("Monitor__init__") /\ ~result[1].raised) =>
          /\ result[1].dev.bwrites = 1
          /\ result[1].dev.brightness = 100

\* a brightness of 130 was requested
C13_Witness ==
    /\ Done("_update_brighness")
    /\ args.brightness = 130
    /\ result[1].brightness \in 0..100

-----------------------------------------------------------------------------
(* Properties of a pulse updated again and again *)

\* C17: for every speed >= 0 the position of a pulse lies in 0..100 between
\* update() calls.
C17_PositionInRange ==
    \A k \in Pulses : monitors[k].position \in 0..100

\* a speed that does not divide 100: position 98 at speed 7
C17_Witness ==
    /\ args.fn = "pulse_update"
    /\ monitors[1].speed = 7
    /\ monitors[1].position = 98

\* the colour of a pulse is colour a, and its zone shows it
ShowsA(k) ==
    /\ monitors[k].current_colour = HexByte(monitors[k].a_colour[1])
          \o HexByte(monitors[k].a_colour[2]) \o HexByte(monitors[k].a_colour[3])
    /\ \A z \in monitors[k].locations :
          /\ device.leds[z] = monitors[k].current_colour
          /\ device.writes[k][z] = 1

\* C18: with a speed > 0 every update() either adds the speed to the position,
\* which stays <= 100, or, when that would exceed 100, resets it to 0; the
\* position is 0 again and again, and colour a is written again and again.
C18_RestartsFromA ==
    /\ [][\A k \in Pulses :
            monitors[k].speed > 0 =>
                \/ /\ monitors'[k].position = monitors[k].position + monitors[k].speed
                   /\ monitors'[k].position > monitors[k].position
                   /\ monitors'[k].position <= 100
                \/ /\ monitors[k].position + monitors[k].speed > 100
                   /\ monitors'[k].position = 0]_vars
    /\ []<>(\A k \in Pulses : monitors[k].speed > 0 => monitors[k].position = 0)
    /\ []<>(\A k \in Pulses : monitors[k].speed > 0 => ShowsA(k))

\* a pulse of speed 30 has written the blend at position 90 and is back at 0
C18_Witness ==
    /\ args.fn = "pulse_update"
    /\ monitors[1].speed = 30
    /\ monitors[1].position = 0
    /\ monitors[1].current_colour
          = BlendHex(monitors[1].a_colour, monitors[1].b_colour, 90)

====
